---------------------------- MODULE Spec2Model ----------------------------
(***************************************************************************)
(* A model of the two A2A demonstration services:                          *)
(*   - Agent B (Caller): caller_agent.py, CallerAgent.extract_name,        *)
(*     CallerAgent.call_greeter_agent and CallerAgent.stream;              *)
(*   - Agent A (Greeter): greeter_agent.py, the greeting tools             *)
(*     create_greeting_form / return_greeting_form / generate_greeting     *)
(*     over the module-level greeting_ids and greeting_history,            *)
(*     GreeterAgent.stream over the runner's events, and                   *)
(*     agent_executor.py, GreeterAgentExecutor.execute over that stream.   *)
(* Python strings are TLA+ strings; a query is a tuple of one-character    *)
(* strings so that the regular expressions and str methods can be          *)
(* computed character by character.                                        *)
(***************************************************************************)
EXTENDS Integers, Sequences, FiniteSets, TLC

VARIABLES
    env,              \* the Caller's process environment (os.getenv)
    caller,           \* the Caller task (one run of CallerAgent.stream): its position,
                      \* arguments, the local "name", the events yielded, how its POST ended
    outbox,           \* the outbound HTTP requests issued so far, in order
    greeting_ids,     \* greeter_agent.py:14
    greeting_history, \* greeter_agent.py:15
    last_call,        \* the latest tool call of the Greeter and its result
    returned,         \* history: the ids create_greeting_form has returned, in order
    passed,           \* history: id -> the arguments of the creates that returned it
    delivered,        \* history: the ids generate_greeting has answered "delivered"
    sessions,         \* the runner's InMemorySessionService: the session ids it holds
    greeter,          \* the Greeter task (one run of GreeterAgent.stream)
    executor          \* one run of GreeterAgentExecutor.execute, the consumer of the
                      \* Greeter task it starts

callerVars == <<env, caller, outbox>>
registryVars == <<greeting_ids, greeting_history, last_call, returned, passed, delivered>>
greeterVars == <<sessions, greeter, executor>>
vars == <<env, caller, outbox, greeting_ids, greeting_history, last_call,
          returned, passed, delivered, sessions, greeter, executor>>

\* Python's None where a string is expected (never a value of an input set).
None == "None"

(***************************************************************************)
(* Characters and str methods                                              *)
(***************************************************************************)
LowerChars == <<"a","b","c","d","e","f","g","h","i","j","k","l","m",
                "n","o","p","q","r","s","t","u","v","w","x","y","z">>
UpperChars == <<"A","B","C","D","E","F","G","H","I","J","K","L","M",
                "N","O","P","Q","R","S","T","U","V","W","X","Y","Z">>
DigitChars == <<"0","1","2","3","4","5","6","7","8","9">>

Range(s) == {s[i] : i \in 1..Len(s)}

isupper(c) == c \in Range(UpperChars)
IsSpace(c) == c = " "
\* \w of the re module on str
IsWord(c) == c \in Range(LowerChars) \cup Range(UpperChars) \cup Range(DigitChars) \cup {"_"}

lowerChar(c) ==
    IF isupper(c) THEN LowerChars[CHOOSE i \in 1..26 : UpperChars[i] = c] ELSE c
upperChar(c) ==
    IF c \in Range(LowerChars) THEN UpperChars[CHOOSE i \in 1..26 : LowerChars[i] = c] ELSE c

\* str.lower()
lower(s) == [i \in 1..Len(s) |-> lowerChar(s[i])]
\* str.capitalize()
capitalize(s) == [i \in 1..Len(s) |-> IF i = 1 THEN upperChar(s[i]) ELSE lowerChar(s[i])]

\* The Python str a tuple of characters stands for.
RECURSIVE Str(_)
Str(s) == IF s = <<>> THEN "" ELSE s[1] \o Str(Tail(s))

\* s has the literal lit at position i
LitAt(s, i, lit) ==
    /\ i >= 1
    /\ i + Len(lit) - 1 <= Len(s)
    /\ \A k \in 1..Len(lit) : s[i + k - 1] = lit[k]

\* sub in s
Contains(s, sub) == \E i \in 1..(Len(s) + 1) : LitAt(s, i, sub)

\* The end of the longest run of characters satisfying a class that starts at i
\* (i - 1 when s[i] is not in the class): what a greedy \s+ or \w+ consumes.
RECURSIVE SpaceRunEnd(_, _)
SpaceRunEnd(s, i) == IF i <= Len(s) /\ IsSpace(s[i]) THEN SpaceRunEnd(s, i + 1) ELSE i - 1
RECURSIVE WordRunEnd(_, _)
WordRunEnd(s, i) == IF i <= Len(s) /\ IsWord(s[i]) THEN WordRunEnd(s, i + 1) ELSE i - 1

\* str.split(): the maximal runs of non-whitespace characters, in order
RECURSIVE SplitFrom(_, _, _)
SplitFrom(s, i, cur) ==
    IF i > Len(s) THEN (IF cur = <<>> THEN <<>> ELSE <<cur>>)
    ELSE IF IsSpace(s[i])
         THEN (IF cur = <<>> THEN <<>> ELSE <<cur>>) \o SplitFrom(s, i + 1, <<>>)
         ELSE SplitFrom(s, i + 1, Append(cur, s[i]))
split(s) == SplitFrom(s, 1, <<>>)

(***************************************************************************)
(* CallerAgent.extract_name (caller_agent.py:19-42)                        *)
(***************************************************************************)
\* A pattern lit1\s+lit2\s+...\s+(\w+) tried at position i: the position where
\* the captured word starts, 0 when the pattern does not match at i.  A greedy
\* \s+ takes the whole run of whitespace: what follows it in these patterns
\* never is whitespace, so no shorter run can succeed where the whole run fails.
RECURSIVE MatchLits(_, _, _)
MatchLits(s, i, lits) ==
    IF ~LitAt(s, i, lits[1]) THEN 0
    ELSE LET after == i + Len(lits[1])
             e == SpaceRunEnd(s, after)
         IN  IF e < after THEN 0
             ELSE IF Len(lits) = 1
                  THEN (IF WordRunEnd(s, e + 1) >= e + 1 THEN e + 1 ELSE 0)
                  ELSE MatchLits(s, e + 1, Tail(lits))

\* The least element of a non-empty set of positions
First(S) == CHOOSE k \in S : \A m \in S : k <= m

\* The run of \w characters that starts at j
WordAt(s, j) == SubSeq(s, j, WordRunEnd(s, j))

\* group(1) of the leftmost of the matches that start at the positions hits
LeftmostGroup(s, lits, hits) ==
    IF hits = {} THEN <<>> ELSE WordAt(s, MatchLits(s, First(hits), lits))

\* re.search of such a pattern: group(1) of the leftmost match, <<>> when none
\* (a captured \w+ is never empty).
SearchLits(s, lits) ==
    LeftmostGroup(s, lits, {i \in 1..Len(s) : MatchLits(s, i, lits) # 0})

\* The start of the run of \w characters that ends the string, Len(s) + 1 when
\* the string does not end with a \w character.
RECURSIVE TailWordStart(_, _)
TailWordStart(s, j) == IF j >= 1 /\ IsWord(s[j]) THEN TailWordStart(s, j - 1) ELSE j + 1

\* Where group(1) starts when "call" matched at i and the last run of \w starts
\* at w: the lazy .*? stops at the first position from which \w+ reaches the end.
CallGroupStart(i, w) == IF i + 4 > w THEN i + 4 ELSE w

CallGroup(s, w, hits) ==
    IF hits = {} THEN <<>> ELSE SubSeq(s, CallGroupStart(First(hits), w), Len(s))

CallHits(s, w) ==
    {i \in 1..Len(s) : LitAt(s, i, <<"c","a","l","l">>) /\ CallGroupStart(i, w) <= Len(s)}

\* re.search(r"call.*?(\w+)$"): group(1) of the leftmost match, <<>> when none
SearchCall(s) == CallGroup(s, TailWordStart(s, Len(s)), CallHits(s, TailWordStart(s, Len(s))))

\* caller_agent.py:22-28: group(1) of each pattern on the lower-cased query
patterns(s) ==
    << SearchLits(s, << <<"f","o","r">> >>),
       SearchLits(s, << <<"g","r","e","e","t">> >>),
       SearchLits(s, << <<"g","r","e","e","t","i","n","g">>, <<"f","o","r">> >>),
       SearchLits(s, << <<"h","e","l","l","o">>, <<"t","o">> >>),
       SearchCall(s) >>

StopList == { <<"a","g","e","n","t">>, <<"g","r","e","e","t","e","r">>, <<"c","a","l","l","e","r">> }

Someone == <<"S","o","m","e","o","n","e">>

\* caller_agent.py:31-34: the first pattern that matches decides
FirstMatch(groups, matched) ==
    IF matched = {} THEN <<>> ELSE capitalize(groups[First(matched)])

PatternName(groups) == FirstMatch(groups, {k \in 1..Len(groups) : groups[k] # <<>>})

\* caller_agent.py:37-42: the first capitalised word outside the stop list,
\* "Someone" when there is none
FirstCapital(words, capital) ==
    IF capital = {} THEN Someone ELSE words[First(capital)]

CapitalName(words) ==
    FirstCapital(words, {k \in 1..Len(words) :
                           /\ isupper(words[k][1])
                           /\ Len(words[k]) > 1
                           /\ lower(words[k]) \notin StopList})

NameOr(from_pattern, query) ==
    IF from_pattern # <<>> THEN from_pattern ELSE CapitalName(split(query))

extract_name(query) == NameOr(PatternName(patterns(lower(query))), query)

(***************************************************************************)
(* The Caller's inputs: environment, queries, session ids, peer outcomes   *)
(***************************************************************************)
\* "not x" of a str-or-None
Falsy(x) == x = None \/ x = ""

AgentUrls == {None, "", "http://agent-a"}
ClerkTokens == {None, "tok"}

Queries ==
    { <<"g","r","e","e","t"," ","j","o","h","n">>,
      <<"c","u","s","t","o","m"," ","f","o","r"," ","B","o","b">>,
      <<"C","u","s","t","o","m"," ","h","i">>,
      <<"c","u","s","t","o","m"," ","h","i">>,
      <<"h","i"," ","t","h","e","r","e">>,
      <<"T","e","l","l"," ","A","n","n"," ","h","i">>,
      <<"c","a","l","l"," ","A","g","e","n","t">> }

SessionIds == {"s1", "s2", "test-session"}

\* A parsed JSON value: an object with string members (keys in document order),
\* or another value given by its Python str().
JObj(keys, val) == [isdict |-> TRUE, keys |-> keys, val |-> val, str |-> ""]
JOther(text) == [isdict |-> FALSE, keys |-> <<>>, val |-> <<>>, str |-> text]
NotJson == [isdict |-> FALSE, keys |-> <<>>, val |-> <<>>, str |-> None]

\* Response bodies: the raw text and what response.json() makes of it.
Bodies ==
    { [text |-> "{\"type\": \"form\", \"greeting\": \"Hi\"}",
       json |-> JObj(<<"type", "greeting">>, [type |-> "form", greeting |-> "Hi"])],
      [text |-> "{\"greeting\": \"Hello John!\", \"status\": \"delivered\", \"greeting_id\": \"greeting_1000000\"}",
       json |-> JObj(<<"greeting", "status", "greeting_id">>,
                     [greeting |-> "Hello John!", status |-> "delivered",
                      greeting_id |-> "greeting_1000000"])],
      [text |-> "{\"content\": \"c1\", \"greeting\": \"Hi\"}",
       json |-> JObj(<<"content", "greeting">>, [content |-> "c1", greeting |-> "Hi"])],
      [text |-> "{\"response\": \"r1\", \"content\": \"c1\"}",
       json |-> JObj(<<"response", "content">>, [response |-> "r1", content |-> "c1"])],
      [text |-> "{\"response\": \"r1\"}",
       json |-> JObj(<<"response">>, [response |-> "r1"])],
      [text |-> "{\"detail\": \"x\"}",
       json |-> JObj(<<"detail">>, [detail |-> "x"])],
      [text |-> "\"hello\"", json |-> JOther("hello")],
      [text |-> "<html>", json |-> NotJson] }

Statuses == {200, 404, 500}

\* Exceptions: the class (by what the except clauses test) and str(e).
NoExc == [type |-> "none", timeout |-> FALSE, exception |-> FALSE, msg |-> ""]
TimeoutExcs ==
    { [type |-> "ReadTimeout", timeout |-> TRUE, exception |-> TRUE, msg |-> m] :
        m \in {"", "The read operation timed out"} }
TransportExcs ==
    { [type |-> "ConnectError", timeout |-> FALSE, exception |-> TRUE,
       msg |-> "All connection attempts failed"] }
JSONDecodeError ==
    [type |-> "JSONDecodeError", timeout |-> FALSE, exception |-> TRUE,
     msg |-> "Expecting value: line 1 column 1 (char 0)"]

\* What "await client.post(...)" does: returns a response or raises.
NoOutcome == [kind |-> "none", status |-> 0, text |-> "", json |-> NotJson, exc |-> NoExc]
PeerOutcomes ==
    { [kind |-> "response", status |-> st, text |-> b.text, json |-> b.json, exc |-> NoExc] :
        st \in Statuses, b \in Bodies }
    \cup
    { [kind |-> "raise", status |-> 0, text |-> "", json |-> NotJson, exc |-> e] :
        e \in TimeoutExcs \cup TransportExcs }

(***************************************************************************)
(* dict methods, json.dumps and str on the parsed values                   *)
(***************************************************************************)
\* key in result
Has(j, k) == \E i \in 1..Len(j.keys) : j.keys[i] = k
\* result.get(key, default)
Get(j, k, default) == IF Has(j, k) THEN j.val[k] ELSE default

RECURSIVE JoinMembers(_, _, _, _, _)
JoinMembers(j, i, quote, colon, sep) ==
    IF i > Len(j.keys) THEN ""
    ELSE quote \o j.keys[i] \o quote \o colon \o quote \o j.val[j.keys[i]] \o quote
         \o (IF i < Len(j.keys) THEN sep ELSE "")
         \o JoinMembers(j, i + 1, quote, colon, sep)

\* json.dumps(result, indent=2)
JsonDumps(j) ==
    IF ~j.isdict THEN "\"" \o j.str \o "\""
    ELSE IF j.keys = <<>> THEN "{}"
    ELSE "{\n  " \o JoinMembers(j, 1, "\"", ": ", ",\n  ") \o "\n}"

\* str(result)
PyStr(j) ==
    IF ~j.isdict THEN j.str
    ELSE "{" \o JoinMembers(j, 1, "'", ": ", ", ") \o "}"

(***************************************************************************)
(* CallerAgent.call_greeter_agent (caller_agent.py:44-101)                 *)
(***************************************************************************)
Headers(e) ==
    IF Falsy(e.CLERK_TOKEN)
    THEN [h \in {"Content-Type"} |-> "application/json"]
    ELSE [h \in {"Content-Type", "Authorization"} |->
            IF h = "Content-Type" THEN "application/json" ELSE "Bearer " \o e.CLERK_TOKEN]

\* An outbound POST: client.post(url, json=..., headers=...)
Request(url, query, session_id, headers) ==
    [url |-> url, json |-> [query |-> query, session_id |-> session_id], headers |-> headers]

\* caller_agent.py:62-72
GreeterRequest(name, e) ==
    Request(e.AGENT_A_URL \o "/process", "Please greet " \o Str(name), "test-session", Headers(e))

\* The report with the test of "content" placed before the test of "greeting".
GreeterReportContentFirst(result) ==
    IF result.isdict
    THEN IF Get(result, "type", None) = "form"
         THEN "Agent A sent a form for customization:\n" \o JsonDumps(result)
         ELSE IF Has(result, "content")
         THEN "Agent A responded: " \o result.val["content"]
         ELSE IF Has(result, "greeting")
         THEN "Agent A responded (ID: " \o Get(result, "greeting_id", "unknown")
              \o ", Status: " \o Get(result, "status", "unknown") \o "):\n"
              \o Get(result, "greeting", None)
         ELSE IF Has(result, "response")
         THEN "Agent A responded: " \o result.val["response"]
         ELSE "Agent A responded with: " \o JsonDumps(result)
    ELSE "Agent A responded: " \o PyStr(result)

\* caller_agent.py:75-94: the report on a parsed 200 response
GreeterReport(result) ==
    IF result.isdict
    THEN IF Get(result, "type", None) = "form"
         THEN "Agent A sent a form for customization:\n" \o JsonDumps(result)
         ELSE IF Has(result, "greeting")
         THEN "Agent A responded (ID: " \o Get(result, "greeting_id", "unknown")
              \o ", Status: " \o Get(result, "status", "unknown") \o "):\n"
              \o Get(result, "greeting", None)
         ELSE IF Has(result, "content")
         THEN "Agent A responded: " \o result.val["content"]
         ELSE IF Has(result, "response")
         THEN "Agent A responded: " \o result.val["response"]
         ELSE "Agent A responded with: " \o JsonDumps(result)
    ELSE "Agent A responded: " \o PyStr(result)

\* The try body without the test of the status code: every response is parsed.
GreeterTryAnyStatus(o) ==
    IF o.kind = "raise" THEN [raised |-> o.exc, value |-> ""]
    ELSE IF o.json = NotJson
         THEN [raised |-> JSONDecodeError, value |-> ""]
         ELSE [raised |-> NoExc, value |-> GreeterReport(o.json)]

\* caller_agent.py:59-96: the body of the try statement once the POST has ended
\* with outcome o: the value it returns, or the exception it raises.
GreeterTry(o) ==
    IF o.kind = "raise" THEN [raised |-> o.exc, value |-> ""]
    ELSE IF o.status = 200
         THEN IF o.json = NotJson
              THEN [raised |-> JSONDecodeError, value |-> ""]
              ELSE [raised |-> NoExc, value |-> GreeterReport(o.json)]
         ELSE [raised |-> NoExc,
               value |-> "Error calling Agent A: HTTP " \o ToString(o.status) \o " - " \o o.text]

TimeoutMessage == "Error: Timeout while calling Agent A. The agent might be unavailable."

\* A handler list without the final "except Exception" clause.
GreeterExceptNoCatchAll(r) ==
    IF r.raised = NoExc THEN r
    ELSE IF r.raised.timeout THEN [raised |-> NoExc, value |-> TimeoutMessage]
    ELSE r

\* caller_agent.py:98-101: the except clauses, in order
GreeterExcept(r) ==
    IF r.raised = NoExc THEN r
    ELSE IF r.raised.timeout THEN [raised |-> NoExc, value |-> TimeoutMessage]
    ELSE IF r.raised.exception
         THEN [raised |-> NoExc, value |-> "Error calling Agent A: " \o r.raised.msg]
         ELSE r

ConfigErrorMessage == "Error: AGENT_A_URL is not configured. Cannot call Agent A."

\* The call without the test of AGENT_A_URL of its first lines.
call_greeter_agent_untested(name, e, o) ==
    [sent |-> <<GreeterRequest(name, e)>>,
     raised |-> GreeterExcept(GreeterTry(o)).raised,
     value |-> GreeterExcept(GreeterTry(o)).value]

CallResult(sent, r) == [sent |-> sent, raised |-> r.raised, value |-> r.value]

\* The whole call: the requests it issues, and what it returns or raises when
\* the POST ends with outcome o.
call_greeter_agent(name, e, o) ==
    IF Falsy(e.AGENT_A_URL)
    THEN [sent |-> <<>>, raised |-> NoExc, value |-> ConfigErrorMessage]
    ELSE CallResult(<<GreeterRequest(name, e)>>, GreeterExcept(GreeterTry(o)))

(***************************************************************************)
(* CallerAgent.stream (caller_agent.py:103-169)                            *)
(***************************************************************************)
\* The two shapes of event dict the streams yield
Progress(message) == [is_task_complete |-> FALSE, updates |-> message]
Complete(content) == [is_task_complete |-> TRUE, content |-> content]

\* caller_agent.py:16-17
get_processing_message == "Calling the Greeter Agent..."

\* caller_agent.py:112
IsCustom(query) == Contains(lower(query), <<"c","u","s","t","o","m">>)

\* caller_agent.py:131
CustomQuery(name) ==
    IF name # <<>> THEN "custom greeting for " \o Str(name) ELSE "custom greeting"

\* caller_agent.py:131-137
CustomRequest(name, session_id, e) ==
    Request(e.AGENT_A_URL \o "/process", CustomQuery(name), session_id, Headers(e))

\* caller_agent.py:127-160: the events the custom path yields once the POST has
\* ended with outcome o, and the exception that leaves the generator, if any.
CustomTry(o) ==
    IF o.kind = "raise" THEN [raised |-> o.exc, events |-> <<>>]
    ELSE IF o.status = 200
         THEN IF o.json = NotJson
              THEN [raised |-> JSONDecodeError, events |-> <<>>]
              ELSE [raised |-> NoExc,
                    events |-> << Complete(
                        "Demonstrating A2A communication with forms:\n"
                        \o (IF o.json.isdict /\ Get(o.json, "type", None) = "form"
                            THEN "Agent A provided a customization form:\n" \o JsonDumps(o.json)
                            ELSE PyStr(o.json))) >>]
         ELSE [raised |-> NoExc,
               events |-> << Complete("Error: HTTP " \o ToString(o.status) \o " - " \o o.text) >>]

\* The custom path with no except clause around its try body.
CustomExceptMissing(r) == r

\* caller_agent.py:156-160
CustomExcept(r) ==
    IF r.raised # NoExc /\ r.raised.exception
    THEN [raised |-> NoExc,
          events |-> r.events \o << Complete("Error calling Agent A: " \o r.raised.msg) >>]
    ELSE r

\* The standard path without its yield: the call's result is dropped.
StandardYieldNothing(response) == [raised |-> response.raised, events |-> <<>>]

\* caller_agent.py:166-169
StandardYield(response) ==
    IF response.raised # NoExc
    THEN [raised |-> response.raised, events |-> <<>>]
    ELSE [raised |-> NoExc,
          events |-> << Complete("Demonstrating A2A communication:\n" \o response.value) >>]

\* caller_agent.py:164-169
StandardFinish(name, e, o) == StandardYield(call_greeter_agent(name, e, o))

\* The task after the events and the exception r of its last step
Finished(task, r, o) ==
    [task EXCEPT !.pc = IF r.raised = NoExc THEN "done" ELSE "raised",
                 !.events = @ \o r.events,
                 !.outcome = o,
                 !.raised = r.raised]

\* The stream without its first yield.
CallerProgressSilent ==
    /\ caller.pc = "start"
    /\ caller' = [caller EXCEPT !.pc = "emitted"]
    /\ UNCHANGED <<env, outbox>>
    /\ UNCHANGED <<registryVars, greeterVars>>

\* caller_agent.py:106-109: the first yield
CallerProgress ==
    /\ caller.pc = "start"
    /\ caller' = [caller EXCEPT !.pc = "emitted",
                                !.events = Append(@, Progress(get_processing_message))]
    /\ UNCHANGED <<env, outbox>>
    /\ UNCHANGED <<registryVars, greeterVars>>

\* caller_agent.py:112-120: the custom path with no peer URL ends the stream
CallerCustomUnconfigured ==
    /\ caller.pc = "emitted"
    /\ IsCustom(caller.query)
    /\ Falsy(env.AGENT_A_URL)
    /\ caller' = [caller EXCEPT !.pc = "done",
                    !.events = Append(@, Complete("Error: AGENT_A_URL is not configured."))]
    /\ UNCHANGED <<env, outbox>>
    /\ UNCHANGED <<registryVars, greeterVars>>

\* caller_agent.py:122-137: the custom path issues its POST and awaits it
CallerCustomSend ==
    /\ caller.pc = "emitted"
    /\ IsCustom(caller.query)
    /\ ~Falsy(env.AGENT_A_URL)
    /\ \E name \in {extract_name(caller.query)} :
          /\ outbox' = Append(outbox, CustomRequest(name, caller.session_id, env))
          /\ caller' = [caller EXCEPT !.pc = "await_custom", !.name = name]
    /\ UNCHANGED env
    /\ UNCHANGED <<registryVars, greeterVars>>

\* caller_agent.py:139-160: the POST of the custom path ends
CallerCustomReceive(o) ==
    /\ caller.pc = "await_custom"
    /\ caller' = Finished(caller, CustomExcept(CustomTry(o)), o)
    /\ UNCHANGED <<env, outbox>>
    /\ UNCHANGED <<registryVars, greeterVars>>

\* caller_agent.py:163-169 with 46-48: the call issues no request (no peer
\* URL) and returns at once, and the stream ends
CallerStandardUnconfigured ==
    /\ caller.pc = "emitted"
    /\ ~IsCustom(caller.query)
    /\ \E name \in {extract_name(caller.query)} :
          /\ call_greeter_agent(name, env, NoOutcome).sent = <<>>
          /\ caller' = Finished([caller EXCEPT !.name = name],
                                StandardFinish(name, env, NoOutcome), NoOutcome)
    /\ UNCHANGED <<env, outbox>>
    /\ UNCHANGED <<registryVars, greeterVars>>

\* caller_agent.py:163-164 with 50-72: the standard path issues its POST and
\* awaits it
CallerStandardSend ==
    /\ caller.pc = "emitted"
    /\ ~IsCustom(caller.query)
    /\ \E name \in {extract_name(caller.query)} :
          /\ call_greeter_agent(name, env, NoOutcome).sent # <<>>
          /\ outbox' = outbox \o call_greeter_agent(name, env, NoOutcome).sent
          /\ caller' = [caller EXCEPT !.pc = "await_standard", !.name = name]
    /\ UNCHANGED env
    /\ UNCHANGED <<registryVars, greeterVars>>

\* caller_agent.py:74-101 and 164-169: the POST of the standard path ends
CallerStandardReceive(o) ==
    /\ caller.pc = "await_standard"
    /\ caller' = Finished(caller, StandardFinish(caller.name, env, o), o)
    /\ UNCHANGED <<env, outbox>>
    /\ UNCHANGED <<registryVars, greeterVars>>

CallerNext ==
    \/ CallerProgress
    \/ CallerCustomUnconfigured
    \/ CallerCustomSend
    \/ \E o \in PeerOutcomes : CallerCustomReceive(o)
    \/ CallerStandardUnconfigured
    \/ CallerStandardSend
    \/ \E o \in PeerOutcomes : CallerStandardReceive(o)

(***************************************************************************)
(* The Greeter's tools (greeter_agent.py:13-137)                           *)
(***************************************************************************)
MaxCreates == 2

RandMin == 1000000
RandMax == 9999999

\* The values random.randint(1000000, 9999999) is let to return here: two of
\* them, so that two creates may draw different values or the same one.
RandomInts == {n \in {RandMin, RandMin + 1} : n <= RandMax}

Names == {None, "John"}
\* None, the three styles of the form's enum, and a value outside the enum
Styles == {None, "formal", "casual", "fun", "pirate"}
Messages == {None, "Welcome aboard."}

GreetingId(n) == "greeting_" \o ToString(n)

\* The ids a generate_greeting call is given: every id a create can return, and
\* one that no create returns.
RequestedIds == {GreetingId(n) : n \in RandomInts} \cup {"greeting_42"}

\* An empty dict
EmptyDict == [k \in {} |-> None]

\* dict.get(key, default)
DictGet(d, k, default) == IF k \in DOMAIN d THEN d[k] ELSE default

\* d[key] = value
DictSet(d, k, v) == [x \in DOMAIN d \cup {k} |-> IF x = k THEN v ELSE d[x]]

\* greeter_agent.py:37-42
FormData(greeting_id, name, style, message) ==
    [greeting_id |-> greeting_id,
     name |-> IF Falsy(name) THEN "<person's name>" ELSE name,
     style |-> IF Falsy(style) THEN "<formal/casual/fun>" ELSE style,
     message |-> IF Falsy(message) THEN "<optional custom message>" ELSE message]

\* The emoji of the "fun" template (greeter_agent.py:125)
PartyPopper == "(party popper)"

\* The template chain with an explicit casual branch and no final else: the
\* greeting of a style outside the enum stays empty.
GreetingTextEnumOnly(name, style, message) ==
    (IF style = "formal"
     THEN "Good day, " \o name \o ". I hope this message finds you well."
     ELSE IF style = "fun"
     THEN "Hey there, " \o name \o "! " \o PartyPopper \o " Hope you're having an awesome day!"
     ELSE IF style = "casual"
     THEN "Hello " \o name
          \o "! This is Agent A (Greeter) responding. I hope you're having a wonderful day!"
     ELSE "")
    \o (IF ~Falsy(message) THEN " " \o message ELSE "")

\* greeter_agent.py:121-130
GreetingText(name, style, message) ==
    (IF style = "formal"
     THEN "Good day, " \o name \o ". I hope this message finds you well."
     ELSE IF style = "fun"
     THEN "Hey there, " \o name \o "! " \o PartyPopper \o " Hope you're having an awesome day!"
     ELSE "Hello " \o name
          \o "! This is Agent A (Greeter) responding. I hope you're having a wonderful day!")
    \o (IF ~Falsy(message) THEN " " \o message ELSE "")

InvalidStatus == "Error: Invalid greeting_id."

\* generate_greeting without the membership test of its first lines.
generate_greeting_unchecked(greeting_id, ids, history) ==
    LET data == DictGet(history, greeting_id, EmptyDict)
        style == DictGet(data, "style", "casual")
    IN  [greeting_id |-> greeting_id,
         status |-> "delivered",
         greeting |-> GreetingText(DictGet(data, "name", "Friend"), style,
                                   DictGet(data, "message", "")),
         style |-> style]

\* greeter_agent.py:107-137, over the module's greeting_ids and greeting_history
generate_greeting(greeting_id, ids, history) ==
    IF greeting_id \notin ids
    THEN [greeting_id |-> greeting_id, status |-> InvalidStatus]
    ELSE LET data == DictGet(history, greeting_id, EmptyDict)
             name == DictGet(data, "name", "Friend")
             style == DictGet(data, "style", "casual")
             message == DictGet(data, "message", "")
         IN  [greeting_id |-> greeting_id,
              status |-> "delivered",
              greeting |-> GreetingText(name, style, message),
              style |-> style]

NoCall == [op |-> "none", args |-> <<>>, result |-> <<>>, again |-> FALSE]

\* greeter_agent.py:18-47; n is what random.randint returns
CreateGreetingForm(name, style, message, n) ==
    /\ Len(returned) < MaxCreates
    /\ LET greeting_id == GreetingId(n)
           form_data == FormData(greeting_id, name, style, message)
       IN  /\ greeting_ids' = greeting_ids \cup {greeting_id}
           /\ greeting_history' = DictSet(greeting_history, greeting_id, form_data)
           /\ last_call' = [op |-> "create_greeting_form", args |-> <<name, style, message>>,
                            result |-> form_data, again |-> FALSE]
           /\ returned' = Append(returned, greeting_id)
           /\ passed' = IF greeting_id \in DOMAIN passed THEN passed
                        ELSE DictSet(passed, greeting_id, <<name, style, message>>)
    /\ UNCHANGED delivered
    /\ UNCHANGED <<callerVars, greeterVars>>

\* The schema of the form (greeter_agent.py:74-100), as json.dumps writes it
FormSchema ==
    "{\"type\": \"object\", \"properties\": {"
    \o "\"name\": {\"type\": \"string\", \"description\": \"Name of the person to greet\", \"title\": \"Name\"}, "
    \o "\"style\": {\"type\": \"string\", \"enum\": [\"formal\", \"casual\", \"fun\"], \"description\": \"Style of greeting\", \"title\": \"Greeting Style\"}, "
    \o "\"message\": {\"type\": \"string\", \"description\": \"Optional custom message to include\", \"title\": \"Custom Message\"}, "
    \o "\"greeting_id\": {\"type\": \"string\", \"description\": \"Greeting ID for tracking\", \"title\": \"Greeting ID\"}}, "
    \o "\"required\": [\"name\", \"style\", \"greeting_id\"]}"

\* json.dumps of a form's data, its keys in the order of greeter_agent.py:37-42
DumpsFormData(form) ==
    "{\"greeting_id\": \"" \o form.greeting_id \o "\", \"name\": \"" \o form.name
    \o "\", \"style\": \"" \o form.style \o "\", \"message\": \"" \o form.message \o "\"}"

\* A form_request argument: text is the string passed (None for a dict) and
\* form is the dict passed or what json.loads makes of the string.
DictRequest(form) == [text |-> None, form |-> form]
StrRequests ==
    { [text |-> "{\"greeting_id\": \"greeting_42\", \"name\": \"John\", \"style\": \"fun\", \"message\": \"Welcome aboard.\"}",
       form |-> [greeting_id |-> "greeting_42", name |-> "John", style |-> "fun",
                 message |-> "Welcome aboard."]],
      [text |-> "greeting_42", form |-> JSONDecodeError] }

\* The calls of return_greeting_form that are made: with a stored form as a
\* dict, with a string of JSON and instructions, with a string that is no JSON
ReturnRequests(history) ==
    {<<DictRequest(history[k]), None>> : k \in DOMAIN history}
    \cup {<<r, IF r.form = JSONDecodeError THEN None ELSE "Choose a style">> : r \in StrRequests}

DefaultInstructions == "Please customize your greeting preferences"

\* greeter_agent.py:50-104: what the call returns or raises, and the two
\* flags it sets on tool_context.actions
return_greeting_form(form_request, instructions) ==
    IF form_request.text # None /\ form_request.form = JSONDecodeError
    THEN [raised |-> TRUE, value |-> JSONDecodeError,
          skip_summarization |-> FALSE, escalate |-> FALSE]
    ELSE [raised |-> FALSE,
          value |-> "{\"type\": \"form\", \"form\": " \o FormSchema
                    \o ", \"form_data\": " \o DumpsFormData(form_request.form)
                    \o ", \"instructions\": \""
                    \o (IF Falsy(instructions) THEN DefaultInstructions ELSE instructions)
                    \o "\"}",
          skip_summarization |-> TRUE, escalate |-> TRUE]

\* greeter_agent.py:50-104
ReturnGreetingForm(form_request, instructions) ==
    /\ last_call' = [op |-> "return_greeting_form", args |-> <<form_request, instructions>>,
                     result |-> return_greeting_form(form_request, instructions),
                     again |-> FALSE]
    /\ UNCHANGED <<greeting_ids, greeting_history, returned, passed, delivered>>
    /\ UNCHANGED <<callerVars, greeterVars>>

\* generate_greeting forgetting the greeting it has delivered.
GenerateGreetingConsuming(greeting_id) ==
    /\ LET result == generate_greeting(greeting_id, greeting_ids, greeting_history)
       IN  /\ last_call' = [op |-> "generate_greeting", args |-> <<greeting_id>>,
                            result |-> result, again |-> greeting_id \in delivered]
           /\ delivered' = IF result.status = "delivered"
                           THEN delivered \cup {greeting_id} ELSE delivered
    /\ greeting_ids' = greeting_ids \ {greeting_id}
    /\ UNCHANGED <<greeting_history, returned, passed>>
    /\ UNCHANGED <<callerVars, greeterVars>>

\* greeter_agent.py:107-137; "again" records that the id had been answered
\* "delivered" before this call
GenerateGreeting(greeting_id) ==
    /\ LET result == generate_greeting(greeting_id, greeting_ids, greeting_history)
       IN  /\ last_call' = [op |-> "generate_greeting", args |-> <<greeting_id>>,
                            result |-> result, again |-> greeting_id \in delivered]
           /\ delivered' = IF result.status = "delivered"
                           THEN delivered \cup {greeting_id} ELSE delivered
    /\ UNCHANGED <<greeting_ids, greeting_history, returned, passed>>
    /\ UNCHANGED <<callerVars, greeterVars>>

RegistryNext ==
    \/ \E name \in Names, style \in Styles, message \in Messages, n \in RandomInts :
          CreateGreetingForm(name, style, message, n)
    \/ \E greeting_id \in RequestedIds : GenerateGreeting(greeting_id)

\* The three tools of the Greeter called in any order, the forms created with
\* or without a name, a style and a message
ToolStyles == {None, "fun"}
ToolsNext ==
    \/ \E name \in Names, style \in ToolStyles, message \in Messages, n \in RandomInts :
          CreateGreetingForm(name, style, message, n)
    \/ \E request \in ReturnRequests(greeting_history) :
          ReturnGreetingForm(request[1], request[2])
    \/ \E greeting_id \in RequestedIds : GenerateGreeting(greeting_id)

(***************************************************************************)
(* GreeterAgent.stream (greeter_agent.py:201-254)                          *)
(***************************************************************************)
MaxEvents == 2
MaxParts == 2

\* A part of an event's content: p.text and p.function_response (dumped)
NoFunction == [name |-> None, response |-> None]
Part(text, function_response) == [text |-> text, function_response |-> function_response]
Parts ==
    { Part("Hello John!", NoFunction),
      Part("", NoFunction),
      Part(None, [name |-> "generate_greeting", response |-> "delivered"]),
      Part(None, [name |-> "return_greeting_form", response |-> "form"]) }

RECURSIVE SeqsUpTo(_, _)
SeqsUpTo(S, n) ==
    IF n = 0 THEN {<<>>}
    ELSE LET shorter == SeqsUpTo(S, n - 1)
         IN  shorter \cup {Append(q, x) : q \in shorter, x \in S}

\* The events the runner yields: event.is_final_response(), and event.content
\* (has_content is FALSE for a None content) with its parts.
RunnerEvents ==
    [final : BOOLEAN, has_content : {TRUE}, parts : SeqsUpTo(Parts, MaxParts)]
    \cup [final : BOOLEAN, has_content : {FALSE}, parts : {<<>>}]
NoEvent == [final |-> FALSE, has_content |-> FALSE, parts |-> <<>>]

\* [f(x) for x in parts if keep(x)]
RECURSIVE TextParts(_)
TextParts(parts) ==
    IF parts = <<>> THEN <<>>
    ELSE (IF ~Falsy(parts[1].text) THEN <<parts[1].text>> ELSE <<>>) \o TextParts(Tail(parts))
RECURSIVE FunctionParts(_)
FunctionParts(parts) ==
    IF parts = <<>> THEN <<>>
    ELSE (IF parts[1].function_response # NoFunction
          THEN <<parts[1].function_response>> ELSE <<>>) \o FunctionParts(Tail(parts))

\* "\n".join(text_parts)
RECURSIVE JoinLines(_)
JoinLines(texts) ==
    IF texts = <<>> THEN ""
    ELSE IF Len(texts) = 1 THEN texts[1]
    ELSE texts[1] \o "\n" \o JoinLines(Tail(texts))

\* The response built with the last function response in place of the first.
FinalResponseLastFunction(event) ==
    IF event.has_content /\ event.parts # <<>>
    THEN LET text_parts == TextParts(event.parts)
             function_parts == FunctionParts(event.parts)
         IN  IF text_parts # <<>> /\ function_parts # <<>>
             THEN [text |-> JoinLines(text_parts),
                   function_data |-> function_parts[Len(function_parts)]]
             ELSE IF text_parts # <<>> THEN JoinLines(text_parts)
             ELSE IF function_parts # <<>> THEN function_parts[Len(function_parts)]
             ELSE ""
    ELSE ""

\* greeter_agent.py:219-244: the response built from a final event
FinalResponse(event) ==
    IF event.has_content /\ event.parts # <<>>
    THEN LET text_parts == TextParts(event.parts)
             function_parts == FunctionParts(event.parts)
         IN  IF text_parts # <<>> /\ function_parts # <<>>
             THEN [text |-> JoinLines(text_parts), function_data |-> function_parts[1]]
             ELSE IF text_parts # <<>> THEN JoinLines(text_parts)
             ELSE IF function_parts # <<>> THEN function_parts[1]
             ELSE ""
    ELSE ""

\* greeter_agent.py:156-157
greeter_processing_message == "Processing your greeting request..."

\* greeter_agent.py:218-254: what the stream yields for one event of the runner
StreamEvent(event) ==
    IF event.final THEN Complete(FinalResponse(event))
    ELSE Progress(greeter_processing_message)

(***************************************************************************)
(* GreeterAgentExecutor.execute (agent_executor.py:25-73)                  *)
(***************************************************************************)
\* A message of the request: whether it has a content attribute, and its value
Message(has_content, content) == [has_content |-> has_content, content |-> content]

\* The requests: the attributes lines 38-43 look at, and str(request)
NoRequest ==
    [has_messages |-> FALSE, messages |-> <<>>, has_query |-> FALSE, query |-> None, str |-> ""]
Requests ==
    { [has_messages |-> TRUE,
       messages |-> <<Message(TRUE, "Hi"), Message(TRUE, "Please greet John")>>,
       has_query |-> TRUE, query |-> "ignored", str |-> "Request(messages=[...])"],
      [has_messages |-> TRUE,
       messages |-> <<Message(TRUE, "Hi"), Message(FALSE, None)>>,
       has_query |-> FALSE, query |-> None, str |-> "Request(messages=[...])"],
      [has_messages |-> TRUE, messages |-> <<>>,
       has_query |-> TRUE, query |-> "greet Ann", str |-> "Request(query='greet Ann')"],
      [has_messages |-> FALSE, messages |-> <<>>,
       has_query |-> FALSE, query |-> None, str |-> "greet Bob"] }

AttributeError ==
    [type |-> "AttributeError", timeout |-> FALSE, exception |-> TRUE,
     msg |-> "'Message' object has no attribute 'content'"]

\* The exceptions the agent's stream raises: of the session service, of the runner
StreamExcs ==
    { [type |-> "ValueError", timeout |-> FALSE, exception |-> TRUE, msg |-> "Session not found"],
      [type |-> "ClientError", timeout |-> FALSE, exception |-> TRUE,
       msg |-> "429 RESOURCE_EXHAUSTED"] }

\* json.dumps raising on a content that is not serialisable
TypeError ==
    [type |-> "TypeError", timeout |-> FALSE, exception |-> TRUE,
     msg |-> "Object of type bytes is not JSON serializable"]

\* str(uuid.uuid4()): a fresh id, not held by the session service
Uuids == {"6f1c-uuid"}

\* agent_executor.py:38-43: the query, or the exception raised in getting it
ExecutorQuery(request) ==
    IF request.has_messages /\ request.messages # <<>>
    THEN IF request.messages[Len(request.messages)].has_content
         THEN [raised |-> NoExc, value |-> request.messages[Len(request.messages)].content]
         ELSE [raised |-> AttributeError, value |-> None]
    ELSE IF request.has_query
         THEN [raised |-> NoExc, value |-> request.query]
         ELSE [raised |-> NoExc, value |-> request.str]

\* A handler that logs and re-raises the exception it caught.
ExecutorExceptReraise(e) == e

\* agent_executor.py:70-73: the except clause
ExecutorExcept(e) ==
    IF e.exception
    THEN [type |-> "InternalError", timeout |-> FALSE, exception |-> TRUE,
          msg |-> "Agent execution failed: " \o e.msg]
    ELSE e

StreamingMessage(type, content) == [type |-> type, content |-> content]

\* isinstance(content, dict) of the content FinalResponse builds from an event
IsDictResponse(event) ==
    event.has_content /\ event.parts # <<>> /\ FunctionParts(event.parts) # <<>>

\* json.dumps of a str without characters to escape but the line feed, joined
RECURSIVE JoinEscaped(_)
JoinEscaped(texts) ==
    IF texts = <<>> THEN ""
    ELSE IF Len(texts) = 1 THEN texts[1]
    ELSE texts[1] \o "\\n" \o JoinEscaped(Tail(texts))

\* json.dumps of a dumped function response
DumpsFunction(f) ==
    "{\"name\": \"" \o f.name \o "\", \"response\": \"" \o f.response \o "\"}"

\* agent_executor.py:56: json.dumps(content) of a dict content
DumpsResponse(event) ==
    IF TextParts(event.parts) # <<>>
    THEN "{\"text\": \"" \o JoinEscaped(TextParts(event.parts)) \o "\", \"function_data\": "
         \o DumpsFunction(FunctionParts(event.parts)[1]) \o "}"
    ELSE DumpsFunction(FunctionParts(event.parts)[1])

\* agent_executor.py:50-68: the message for the stream's event of a runner event
ExecutorMessage(event) ==
    IF StreamEvent(event).is_task_complete
    THEN IF IsDictResponse(event)
         THEN StreamingMessage("task", DumpsResponse(event))
         ELSE StreamingMessage("task", StreamEvent(event).content)
    ELSE StreamingMessage("progress", StreamEvent(event).updates)

\* agent_executor.py:49-68: the executor, when it is the consumer of the
\* stream, yields the message of the event the stream has yielded
ExecutorRelay(ex, event) ==
    IF ex.pc = "streaming"
    THEN [ex EXCEPT !.messages = Append(@, ExecutorMessage(event))]
    ELSE ex

\* agent_executor.py:49: the stream ends, and the executor's with it
ExecutorStreamEnd(ex) == IF ex.pc = "streaming" THEN [ex EXCEPT !.pc = "done"] ELSE ex

\* agent_executor.py:36-73: an exception raised inside the try statement ends
\* the executor with what the except clause raises
ExecutorFault(ex, e) ==
    IF ex.pc \in {"start", "streaming"}
    THEN [ex EXCEPT !.pc = "raised", !.raised = ExecutorExcept(e)]
    ELSE ex

\* The session ids the Greeter is called with
GreeterSessionIds == {"s1", "s2"}

\* greeter_agent.py:202-207: session_service.get_session
GreeterGetSession ==
    /\ greeter.pc = "get_session"
    /\ greeter' = [greeter EXCEPT !.found = greeter.session_id \in sessions,
                                  !.pc = IF greeter.session_id \in sessions
                                         THEN "run" ELSE "create_session"]
    /\ UNCHANGED <<sessions, executor>>
    /\ UNCHANGED <<callerVars, registryVars>>

\* greeter_agent.py:208-214: session_service.create_session
GreeterCreateSession ==
    /\ greeter.pc = "create_session"
    /\ sessions' = sessions \cup {greeter.session_id}
    /\ greeter' = [greeter EXCEPT !.pc = "run"]
    /\ UNCHANGED executor
    /\ UNCHANGED <<callerVars, registryVars>>

\* greeter_agent.py:215-254: the runner yields one more event; finals counts the
\* final-response events the runner has produced
GreeterRunnerEvent(event) ==
    /\ greeter.pc = "run"
    /\ Len(greeter.events) < MaxEvents
    /\ greeter' = [greeter EXCEPT !.events = Append(@, StreamEvent(event)),
                                  !.last_event = event,
                                  !.finals = @ + (IF event.final THEN 1 ELSE 0)]
    /\ executor' = ExecutorRelay(executor, event)
    /\ UNCHANGED sessions
    /\ UNCHANGED <<callerVars, registryVars>>

\* greeter_agent.py:215: the runner's iteration ends, and the stream with it
GreeterRunnerEnd ==
    /\ greeter.pc = "run"
    /\ greeter' = [greeter EXCEPT !.pc = "done"]
    /\ executor' = ExecutorStreamEnd(executor)
    /\ UNCHANGED sessions
    /\ UNCHANGED <<callerVars, registryVars>>

GreeterNext ==
    \/ GreeterGetSession
    \/ GreeterCreateSession
    \/ \E event \in RunnerEvents : GreeterRunnerEvent(event)
    \/ GreeterRunnerEnd

\* agent_executor.py:34-49: the executor gets the query and a fresh session id
\* and starts the agent's stream, or fails in getting the query
ExecutorStart(session_id) ==
    /\ executor.pc = "start"
    /\ IF ExecutorQuery(executor.request).raised # NoExc
       THEN /\ executor' = ExecutorFault(executor, ExecutorQuery(executor.request).raised)
            /\ UNCHANGED greeter
       ELSE /\ executor' = [executor EXCEPT !.pc = "streaming",
                                            !.query = ExecutorQuery(executor.request).value]
            /\ greeter' = [pc |-> "get_session", session_id |-> session_id, found |-> FALSE,
                           events |-> <<>>, last_event |-> NoEvent, finals |-> 0]
    /\ UNCHANGED sessions
    /\ UNCHANGED <<callerVars, registryVars>>

\* greeter_agent.py:202-217 under agent_executor.py:49 and 70-73: the session
\* service or the runner raises, the exception leaves the stream, and the
\* executor's except clause takes it
GreeterRaise(e) ==
    /\ greeter.pc \in {"get_session", "create_session", "run"}
    /\ greeter' = [greeter EXCEPT !.pc = "raised"]
    /\ executor' = ExecutorFault(executor, e)
    /\ UNCHANGED sessions
    /\ UNCHANGED <<callerVars, registryVars>>

\* agent_executor.py:52-57 with 70-73: the stream yields a terminal event with
\* a dict content that json.dumps rejects; no message is yielded and the
\* stream is not resumed
ExecutorDumpsFails(event) ==
    /\ executor.pc = "streaming"
    /\ greeter.pc = "run"
    /\ Len(greeter.events) < MaxEvents
    /\ event.final
    /\ IsDictResponse(event)
    /\ greeter' = [greeter EXCEPT !.pc = "suspended",
                                  !.events = Append(@, StreamEvent(event)),
                                  !.last_event = event,
                                  !.finals = @ + 1]
    /\ executor' = ExecutorFault(executor, TypeError)
    /\ UNCHANGED sessions
    /\ UNCHANGED <<callerVars, registryVars>>

ExecutorNext ==
    \/ \E session_id \in Uuids : ExecutorStart(session_id)
    \/ GreeterGetSession
    \/ GreeterCreateSession
    \/ \E event \in RunnerEvents : GreeterRunnerEvent(event)
    \/ GreeterRunnerEnd
    \/ \E e \in StreamExcs : GreeterRaise(e)
    \/ \E event \in RunnerEvents : ExecutorDumpsFails(event)

(***************************************************************************)
(* Specifications: the Caller task, the Greeter's tools and the Greeter     *)
(* task run in separate flows and share no state, so each is checked on    *)
(* its own, the other two at rest.                                         *)
(***************************************************************************)
\* A component at rest: no task running
IdleEnv == [AGENT_A_URL |-> None, CLERK_TOKEN |-> None]
IdleCaller ==
    [pc |-> "idle", query |-> <<>>, session_id |-> None, name |-> <<>>,
     events |-> <<>>, outcome |-> NoOutcome, raised |-> NoExc]
IdleGreeter ==
    [pc |-> "idle", session_id |-> None, found |-> FALSE,
     events |-> <<>>, last_event |-> NoEvent, finals |-> 0]
IdleExecutor ==
    [pc |-> "idle", request |-> NoRequest, query |-> None, messages |-> <<>>, raised |-> NoExc]

\* A Caller task about to start, for every environment, query and session id
CallerInit ==
    /\ env \in [AGENT_A_URL : AgentUrls, CLERK_TOKEN : ClerkTokens]
    /\ caller \in [pc : {"start"}, query : Queries, session_id : SessionIds, name : {<<>>},
                   events : {<<>>}, outcome : {NoOutcome}, raised : {NoExc}]
    /\ outbox = <<>>
    /\ greeting_ids = {}
    /\ greeting_history = EmptyDict
    /\ last_call = NoCall
    /\ returned = <<>>
    /\ passed = EmptyDict
    /\ delivered = {}
    /\ sessions = {}
    /\ greeter = IdleGreeter
    /\ executor = IdleExecutor

\* The Greeter's module just imported: greeting_ids = set(), greeting_history = {}
RegistryInit ==
    /\ env = IdleEnv
    /\ caller = IdleCaller
    /\ outbox = <<>>
    /\ greeting_ids = {}
    /\ greeting_history = EmptyDict
    /\ last_call = NoCall
    /\ returned = <<>>
    /\ passed = EmptyDict
    /\ delivered = {}
    /\ sessions = {}
    /\ greeter = IdleGreeter
    /\ executor = IdleExecutor

\* A Greeter task about to start, for every session id and every set of
\* sessions earlier tasks have left in the session service
GreeterInit ==
    /\ env = IdleEnv
    /\ caller = IdleCaller
    /\ outbox = <<>>
    /\ greeting_ids = {}
    /\ greeting_history = EmptyDict
    /\ last_call = NoCall
    /\ returned = <<>>
    /\ passed = EmptyDict
    /\ delivered = {}
    /\ sessions \in SUBSET GreeterSessionIds
    /\ greeter \in [pc : {"get_session"}, session_id : GreeterSessionIds, found : {FALSE},
                    events : {<<>>}, last_event : {NoEvent}, finals : {0}]
    /\ executor = IdleExecutor

\* An executor (with its own agent and session service, agent_executor.py:23)
\* about to serve a request, for every shape of request
ExecutorInit ==
    /\ env = IdleEnv
    /\ caller = IdleCaller
    /\ outbox = <<>>
    /\ greeting_ids = {}
    /\ greeting_history = EmptyDict
    /\ last_call = NoCall
    /\ returned = <<>>
    /\ passed = EmptyDict
    /\ delivered = {}
    /\ sessions = {}
    /\ greeter = IdleGreeter
    /\ executor \in [pc : {"start"}, request : Requests, query : {None},
                      messages : {<<>>}, raised : {NoExc}]

CallerSpec == CallerInit /\ [][CallerNext]_vars

\* The steps of the stream between its first yield and its POST or its end
\* (caller_agent.py:112-137 and 163-164): local computation. The four actions
\* that start at "emitted" split its states by IsCustom and by the presence of
\* the peer URL, so one of them is enabled exactly when caller.pc = "emitted".
CallerLocalStep == caller.pc = "emitted" /\ CallerNext

\* The Caller task with its consumer iterating the stream to its end and the
\* POST ending (a response, a failure, or the timeout of the client, 30 s,
\* caller_agent.py:59 and 128): weak fairness of the first yield, of the end
\* of each POST, and of the local steps (the last conjunct is
\* WF_vars(CallerLocalStep) with its enabling condition written out).
CallerFairSpec ==
    /\ CallerInit
    /\ [][CallerNext]_vars
    /\ WF_vars(CallerProgress)
    /\ WF_vars(\E o \in PeerOutcomes : CallerCustomReceive(o))
    /\ WF_vars(\E o \in PeerOutcomes : CallerStandardReceive(o))
    /\ ([]<>(caller.pc # "emitted") \/ []<><<CallerLocalStep>>_vars)

RegistrySpec == RegistryInit /\ [][RegistryNext]_vars
ToolsSpec == RegistryInit /\ [][ToolsNext]_vars

GreeterSpec == GreeterInit /\ [][GreeterNext]_vars

ExecutorSpec == ExecutorInit /\ [][ExecutorNext]_vars

(***************************************************************************)
(* Properties of the Caller task (CallerSpec)                              *)
(***************************************************************************)
\* The positions of the terminal events (is_task_complete == True) of a stream
Terminals(events) == {i \in 1..Len(events) : events[i].is_task_complete}

ExactlyOneTerminalLast(events) == Terminals(events) = {Len(events)}

\* The content of the last event of a finished Caller task
CallerContent == caller.events[Len(caller.events)].content

\* C1: every run of CallerAgent.stream emits exactly one event with
\* is_task_complete == True, and that event is the last of the stream: no run
\* ends by an exception in its place, a terminal event is never followed by
\* another event, and a run that has ended has exactly one, in last position.
C1_CallerOneTerminalLast ==
    /\ caller.pc # "raised"
    /\ Cardinality(Terminals(caller.events)) <= 1
    /\ Terminals(caller.events) # {} =>
          caller.pc = "done" /\ ExactlyOneTerminalLast(caller.events)
    /\ caller.pc = "done" => ExactlyOneTerminalLast(caller.events)

\* A custom-path run that ended after the peer answered 200 with a body that
\* is not JSON.
C1_Witness ==
    /\ caller.pc = "done"
    /\ IsCustom(caller.query)
    /\ caller.outcome.kind = "response"
    /\ caller.outcome.status = 200
    /\ caller.outcome.json = NotJson

\* The diagnostic string expected of call_greeter_agent on each failure.
ExpectedDiagnostic(e, o) ==
    IF Falsy(e.AGENT_A_URL) THEN ConfigErrorMessage
    ELSE IF o.kind = "raise"
         THEN (IF o.exc.timeout THEN TimeoutMessage
               ELSE "Error calling Agent A: " \o o.exc.msg)
    ELSE IF o.status # 200
         THEN "Error calling Agent A: HTTP " \o ToString(o.status) \o " - " \o o.text
    ELSE "Error calling Agent A: " \o JSONDecodeError.msg

IsFailure(e, o) ==
    \/ Falsy(e.AGENT_A_URL)
    \/ o.kind = "raise"
    \/ o.kind = "response" /\ (o.status # 200 \/ o.json = NotJson)

\* C3: call_greeter_agent never raises: on the standard path, once the call has
\* ended (missing URL, 200 with any body, non-200, timeout, transport fault) no
\* exception has left it, the stream has gone on to its terminal event, and on
\* every failure the string returned is the diagnostic of that failure.
C3_CallNeverRaises ==
    (~IsCustom(caller.query) /\ caller.pc \in {"done", "raised"}) =>
        /\ caller.raised = NoExc
        /\ caller.pc = "done"
        /\ IsFailure(env, caller.outcome) =>
              CallerContent = "Demonstrating A2A communication:\n"
                              \o ExpectedDiagnostic(env, caller.outcome)

\* A standard-path run whose call ended after a transport fault that is no
\* timeout.
C3_Witness ==
    /\ caller.pc = "done"
    /\ ~IsCustom(caller.query)
    /\ caller.outcome.kind = "raise"
    /\ ~caller.outcome.exc.timeout

\* C4: with AGENT_A_URL unset or empty no outbound request is ever issued, on
\* either path, and the terminal content reports the configuration error (the
\* fixed string of call_greeter_agent on the standard path).
C4_UnconfiguredNoRequest ==
    Falsy(env.AGENT_A_URL) =>
        /\ outbox = <<>>
        /\ caller.pc \in {"start", "emitted", "done"}
        /\ caller.pc = "done" =>
              CallerContent =
                 IF IsCustom(caller.query)
                 THEN "Error: AGENT_A_URL is not configured."
                 ELSE "Demonstrating A2A communication:\n"
                      \o "Error: AGENT_A_URL is not configured. Cannot call Agent A."

\* A standard-path run that ended with AGENT_A_URL set to the empty string.
C4_Witness ==
    /\ env.AGENT_A_URL = ""
    /\ ~IsCustom(caller.query)
    /\ caller.pc = "done"

\* C5: every outbound request body carries the session id of the task that
\* issued it.
C5_SessionIdForwarded ==
    \A i \in 1..Len(outbox) : outbox[i].json.session_id = caller.session_id

\* The texts that may precede a diagnostic in a terminal content
ContentPrefixes ==
    {"", "Demonstrating A2A communication:\n",
     "Demonstrating A2A communication with forms:\n", "Error calling Agent A: "}

\* C6: whenever the outbound request timed out, the terminal content carries
\* the fixed timeout message, on both paths.
C6_TimeoutMessageCarried ==
    (caller.pc = "done" /\ caller.outcome.kind = "raise" /\ caller.outcome.exc.timeout) =>
        \E prefix \in ContentPrefixes :
            CallerContent =
               prefix \o "Error: Timeout while calling Agent A. The agent might be unavailable."

\* The fields a report is taken from, in the order of their priority
ReportFields == <<"greeting", "content", "response">>

\* The positions in ReportFields of the fields a JSON object has
PresentFields(j) == {k \in 1..Len(ReportFields) : Has(j, ReportFields[k])}

\* The report expected for an object without type "form" whose first present
\* field, in priority order, is field
FieldReport(j, field) ==
    IF field = "greeting"
    THEN "Agent A responded (ID: " \o (IF Has(j, "greeting_id") THEN j.val["greeting_id"] ELSE "unknown")
         \o ", Status: " \o (IF Has(j, "status") THEN j.val["status"] ELSE "unknown")
         \o "):\n" \o j.val["greeting"]
    ELSE "Agent A responded: " \o j.val[field]

\* C13: on HTTP 200 with a JSON body, the report of call_greeter_agent (the
\* terminal content of the standard path after its heading) is built from the
\* first field present in the order greeting, content, response, and from the
\* whole body when none is present; an object with type "form" is reported as a
\* form notification whatever its other fields; a body that is no object is
\* reported whole.
C13_ReportFieldPriority ==
    (/\ caller.pc = "done"
     /\ ~IsCustom(caller.query)
     /\ caller.outcome.kind = "response"
     /\ caller.outcome.status = 200
     /\ caller.outcome.json # NotJson) =>
        LET j == caller.outcome.json
        IN  CallerContent =
              "Demonstrating A2A communication:\n"
              \o (IF ~j.isdict THEN "Agent A responded: " \o j.str
                  ELSE IF Has(j, "type") /\ j.val["type"] = "form"
                  THEN "Agent A sent a form for customization:\n" \o JsonDumps(j)
                  ELSE IF PresentFields(j) = {}
                  THEN "Agent A responded with: " \o JsonDumps(j)
                  ELSE FieldReport(j, ReportFields[First(PresentFields(j))]))

\* A standard-path run that ended after a 200 whose body is an object with both
\* a content and a greeting field.
C13_Witness ==
    /\ caller.pc = "done"
    /\ ~IsCustom(caller.query)
    /\ caller.outcome.kind = "response"
    /\ caller.outcome.status = 200
    /\ caller.outcome.json.isdict
    /\ Has(caller.outcome.json, "content")
    /\ Has(caller.outcome.json, "greeting")

\* What may precede the status code or the fault description in a content
ErrorPrefixes ==
    {"Demonstrating A2A communication:\nError calling Agent A: HTTP ",
     "Demonstrating A2A communication:\nError calling Agent A: ",
     "Error: HTTP ", "Error calling Agent A: "}

\* The contents that report the body of outcome o as the peer's answer
AnswerContents(o) ==
    IF o.json = NotJson THEN {}
    ELSE {"Demonstrating A2A communication:\n" \o GreeterReport(o.json),
          "Demonstrating A2A communication with forms:\n" \o PyStr(o.json),
          "Demonstrating A2A communication with forms:\n"
             \o "Agent A provided a customization form:\n" \o JsonDumps(o.json)}

\* C14: when the peer answers with a status other than 200, the terminal
\* content embeds the status code and the raw body text, and the body is not
\* reported as the peer's answer; when the POST fails with a transport fault
\* that is no timeout, the terminal content embeds the description of the
\* fault (str(e)).
C14_FailureEmbedded ==
    caller.pc = "done" =>
        /\ (caller.outcome.kind = "response" /\ caller.outcome.status # 200) =>
              /\ \E prefix \in ErrorPrefixes :
                    CallerContent = prefix \o ToString(caller.outcome.status)
                                    \o " - " \o caller.outcome.text
              /\ CallerContent \notin AnswerContents(caller.outcome)
        /\ (caller.outcome.kind = "raise" /\ ~caller.outcome.exc.timeout) =>
              \E prefix \in ErrorPrefixes : CallerContent = prefix \o caller.outcome.exc.msg

\* A standard-path run that ended after a 404 whose body is a JSON object with
\* a greeting field.
C14_Witness ==
    /\ caller.pc = "done"
    /\ ~IsCustom(caller.query)
    /\ caller.outcome.kind = "response"
    /\ caller.outcome.status = 404
    /\ caller.outcome.json.isdict
    /\ Has(caller.outcome.json, "greeting")

\* The stream has called extract_name and holds its result in "name"
NameExtracted ==
    \/ caller.pc \in {"await_custom", "await_standard"}
    \/ caller.pc = "done" /\ (~IsCustom(caller.query) \/ ~Falsy(env.AGENT_A_URL))

\* No phrase pattern matches the query
NoPatternMatches(query) == \A k \in 1..5 : patterns(lower(query))[k] = <<>>

\* No whitespace-delimited token of the query starts with an upper-case letter,
\* is longer than one character and is outside the stop list
NoCapitalToken(query) ==
    \A k \in 1..Len(split(query)) :
        ~(/\ isupper(split(query)[k][1])
          /\ Len(split(query)[k]) > 1
          /\ lower(split(query)[k]) \notin {<<"a","g","e","n","t">>, <<"g","r","e","e","t","e","r">>,
                                            <<"c","a","l","l","e","r">>})

\* C17: for a query in which no phrase pattern matches and no token qualifies
\* as a capitalised name, extract_name returns none (here the empty result),
\* leaving the default to its caller.
C17_NoNameIsNone ==
    (NameExtracted /\ NoPatternMatches(caller.query) /\ NoCapitalToken(caller.query)) =>
        caller.name = <<>>

\* C18: in every Caller task the first event is a progress event
\* (is_task_complete == False), no outbound request has been issued before it
\* was emitted, and no later event of the stream is a progress event.
C18_ProgressFirstAndOnly ==
    /\ caller.events # <<>> => ~caller.events[1].is_task_complete
    /\ outbox # <<>> => (caller.events # <<>> /\ ~caller.events[1].is_task_complete)
    /\ \A i \in 2..Len(caller.events) : caller.events[i].is_task_complete
    /\ caller.pc = "done" => caller.events # <<>>

\* A run that issued a request and ended: two events, one request.
C18_Witness ==
    /\ caller.pc = "done"
    /\ Len(outbox) = 1
    /\ Len(caller.events) = 2

\* C19: every Caller task eventually emits its terminal event: given that the
\* POST ends (response, failure or timeout), a stream that has emitted its
\* progress event does not stay there for ever.
C19_EventuallyTerminal ==
    (caller.pc = "emitted") ~> (Terminals(caller.events) # {})

\* A standard-path run whose POST timed out and that has emitted its terminal
\* event.
C19_Witness ==
    /\ ~IsCustom(caller.query)
    /\ caller.outcome.kind = "raise"
    /\ caller.outcome.exc.timeout
    /\ Terminals(caller.events) # {}

(***************************************************************************)
(* Properties of the Greeter task (GreeterSpec)                            *)
(***************************************************************************)
\* C2: every run of GreeterAgent.stream emits exactly one terminal event and no
\* event after it, whatever events the runner produces: no event follows a
\* terminal event, and a run that has ended has exactly one terminal event.
C2_GreeterOneTerminalLast ==
    /\ \A i \in Terminals(greeter.events) : i = Len(greeter.events)
    /\ greeter.pc = "done" => ExactlyOneTerminalLast(greeter.events)

\* The positions of the parts of an event that have a text (p.text is neither
\* None nor empty), and of those that have a function response
TextPositions(event) ==
    {i \in 1..Len(event.parts) : event.parts[i].text \notin {None, ""}}
FunctionPositions(event) ==
    {i \in 1..Len(event.parts) : event.parts[i].function_response # NoFunction}

\* The texts of the parts from position i on, joined by line feeds
RECURSIVE JoinedTextFrom(_, _)
JoinedTextFrom(event, i) ==
    IF i > Len(event.parts) THEN ""
    ELSE IF i \notin TextPositions(event) THEN JoinedTextFrom(event, i + 1)
    ELSE IF \E k \in TextPositions(event) : k > i
         THEN event.parts[i].text \o "\n" \o JoinedTextFrom(event, i + 1)
         ELSE event.parts[i].text

\* The function response of the first part that has one
FirstFunctionResponse(event) ==
    event.parts[CHOOSE i \in FunctionPositions(event) :
                    \A k \in FunctionPositions(event) : i <= k].function_response

\* C21: the content of a terminal event of the Greeter is the two-field
\* record of the joined text and the first function response exactly when the
\* final event has both text parts and function-response parts, the joined
\* text with text parts only, the first function response with
\* function-response parts only, and the empty string with neither.
C21_TerminalContentShape ==
    (greeter.events # <<>> /\ greeter.last_event.final) =>
        LET event == greeter.last_event
            content == greeter.events[Len(greeter.events)].content
        IN  /\ greeter.events[Len(greeter.events)].is_task_complete
            /\ IF TextPositions(event) # {} /\ FunctionPositions(event) # {}
               THEN content = [text |-> JoinedTextFrom(event, 1),
                               function_data |-> FirstFunctionResponse(event)]
               ELSE IF TextPositions(event) # {} THEN content = JoinedTextFrom(event, 1)
               ELSE IF FunctionPositions(event) # {} THEN content = FirstFunctionResponse(event)
               ELSE content = ""

\* A terminal event built from a final event with a text part and a
\* function-response part.
C21_Witness ==
    /\ greeter.events # <<>>
    /\ greeter.last_event.final
    /\ TextPositions(greeter.last_event) # {}
    /\ Cardinality(FunctionPositions(greeter.last_event)) = 1
    /\ greeter.events[Len(greeter.events)].content.text = "Hello John!"

(***************************************************************************)
(* Properties of the executor (ExecutorSpec)                               *)
(***************************************************************************)
\* The type of the message expected for an event of the agent's stream
ExpectedType(event) == IF event.is_task_complete THEN "task" ELSE "progress"

\* An exception has been raised in this run: in getting the query, in the
\* agent's stream, or in converting an event
ExecutorFaulted ==
    \/ executor.pc # "start" /\ ExecutorQuery(executor.request).raised # NoExc
    \/ greeter.pc \in {"raised", "suspended"}

\* C20: execute relays the agent's events in order, one message per event, of
\* type "task" exactly for the events with is_task_complete and "progress" for
\* the others; an exception raised while the query is obtained or the stream
\* consumed ends the executor with InternalError and no other exception, every
\* event yielded before the fault relayed and no message emitted after it.
C20_RelayOrInternalError ==
    executor.pc # "idle" =>
        /\ Len(executor.messages) <= Len(greeter.events)
        /\ \A i \in 1..Len(executor.messages) :
              executor.messages[i].type = ExpectedType(greeter.events[i])
        /\ greeter.pc # "suspended" => Len(executor.messages) = Len(greeter.events)
        /\ greeter.pc = "suspended" => Len(executor.messages) = Len(greeter.events) - 1
        /\ ExecutorFaulted <=> executor.pc = "raised"
        /\ executor.pc = "raised" => executor.raised.type = "InternalError"
        /\ executor.pc # "raised" => executor.raised = NoExc
        /\ executor.pc = "done" <=> greeter.pc = "done"

\* A run in which the agent's stream raised after the executor had relayed a
\* progress event.
C20_Witness ==
    /\ executor.pc = "raised"
    /\ greeter.pc = "raised"
    /\ Len(executor.messages) >= 1
    /\ executor.messages[1].type = "progress"

(***************************************************************************)
(* Properties of the Greeter's tools (RegistrySpec)                        *)
(***************************************************************************)
\* C7: a greeting id is valid for one resolution: a generate_greeting call for
\* an id that an earlier call answered "delivered" is not answered "delivered".
C7_SingleResolution ==
    (last_call.op = "generate_greeting" /\ last_call.again) =>
        last_call.result.status # "delivered"

\* C8: each create_greeting_form call returns an id different from every id
\* returned before (so no stored form is overwritten by a later create).
C8_IdsUnique ==
    \A i, j \in 1..Len(returned) : i # j => returned[i] # returned[j]

\* C9: generate_greeting with an id no create_greeting_form call has returned
\* answers with the same id and the status "Error: Invalid greeting_id." and
\* nothing else (no greeting), and leaves greeting_ids and greeting_history as
\* they were.
C9_UnknownIdRejected ==
    [][ (/\ last_call'.op = "generate_greeting"
         /\ last_call'.args[1] \notin Range(returned))
        => /\ last_call'.result = [greeting_id |-> last_call'.args[1],
                                   status |-> "Error: Invalid greeting_id."]
           /\ greeting_ids' = greeting_ids
           /\ greeting_history' = greeting_history ]_vars

\* A generate_greeting call, after a create, for an id in the range of the
\* generator that no create has returned.
C9_Witness ==
    /\ last_call.op = "generate_greeting"
    /\ returned = <<GreetingId(RandMin)>>
    /\ last_call.args = <<GreetingId(RandMin + 1)>>

\* The greeting built from the arguments of a create: the template of the
\* style with the name ("Friend" and casual when not given), and the message
\* appended when one was given.
ExpectedGreeting(args) ==
    GreetingText(IF Falsy(args[1]) THEN "Friend" ELSE args[1],
                 IF Falsy(args[2]) THEN "casual" ELSE args[2],
                 IF Falsy(args[3]) THEN "" ELSE args[3])

\* C10: once create_greeting_form(name, style, message) has returned an id,
\* generate_greeting of that id, after any other calls, answers "delivered"
\* with the greeting built from that name, style and message.
C10_GreetingFromCreation ==
    (last_call.op = "generate_greeting" /\ last_call.args[1] \in DOMAIN passed) =>
        /\ last_call.result.status = "delivered"
        /\ last_call.result.greeting = ExpectedGreeting(passed[last_call.args[1]])

\* No two creates have returned the same id (no stored form was overwritten)
NoCollision == \A i, j \in 1..Len(returned) : i # j => returned[i] # returned[j]

\* The greetings addressed to a name: a template of some style with that name,
\* alone or followed by some text
AddressedTo(name) ==
    {GreetingText(name, style, message) :
        style \in {"formal", "casual", "fun"},
        message \in {"", "Welcome aboard.", "<optional custom message>"}}

CasualTemplate(name) ==
    "Hello " \o name
    \o "! This is Agent A (Greeter) responding. I hope you're having a wonderful day!"

\* C11: generate_greeting of a form created without a name answers with a
\* greeting addressed to "Friend", and of a form created without a style with
\* the casual greeting and the style "casual" in the result.
C11_DefaultsApplied ==
    (/\ last_call.op = "generate_greeting"
     /\ last_call.args[1] \in DOMAIN passed
     /\ NoCollision) =>
        /\ Falsy(passed[last_call.args[1]][1]) =>
              last_call.result.greeting \in AddressedTo("Friend")
        /\ Falsy(passed[last_call.args[1]][2]) =>
              /\ last_call.result.style = "casual"
              /\ \E name \in {"John", "Friend", "<person's name>"} :
                    last_call.result.greeting \in
                       {CasualTemplate(name),
                        CasualTemplate(name) \o " " \o greeting_history[last_call.args[1]].message}

\* C12: generate_greeting of a form created with a name N, the style casual
\* and no message answers with exactly the casual template for N, nothing
\* appended; whatever the name and style, a form created without a message
\* gets the bare template of its stored name and style.
C12_CasualTemplateExact ==
    (/\ last_call.op = "generate_greeting"
     /\ last_call.args[1] \in DOMAIN passed
     /\ NoCollision
     /\ Falsy(passed[last_call.args[1]][3])) =>
        /\ last_call.result.greeting =
              GreetingText(greeting_history[last_call.args[1]].name,
                           greeting_history[last_call.args[1]].style, "")
        /\ (~Falsy(passed[last_call.args[1]][1]) /\ passed[last_call.args[1]][2] = "casual") =>
              last_call.result.greeting =
                 "Hello " \o passed[last_call.args[1]][1]
                 \o "! This is Agent A (Greeter) responding. I hope you're having a wonderful day!"

\* What follows the template: nothing, or a space and the stored message
MessageSuffix(data) == IF data.message = "" THEN "" ELSE " " \o data.message

\* C15: template selection is total over the stored style values: a
\* generate_greeting call for a stored form is answered "delivered", with a
\* greeting that starts "Good day, {name}." when the stored style is "formal",
\* that contains "Hey there, {name}!" when it is "fun", and that is the casual
\* template for every other stored value.
C15_TemplateSelectionTotal ==
    (last_call.op = "generate_greeting" /\ last_call.args[1] \in greeting_ids) =>
        LET data == greeting_history[last_call.args[1]]
            greeting == last_call.result.greeting
        IN  /\ last_call.result.status = "delivered"
            /\ data.style = "formal" =>
                  greeting = "Good day, " \o data.name \o "."
                             \o " I hope this message finds you well." \o MessageSuffix(data)
            /\ data.style = "fun" =>
                  greeting = "Hey there, " \o data.name \o "!"
                             \o " " \o PartyPopper \o " Hope you're having an awesome day!"
                             \o MessageSuffix(data)
            /\ data.style \notin {"formal", "fun"} =>
                  greeting = CasualTemplate(data.name) \o MessageSuffix(data)

\* A generate_greeting call for a stored form whose style is outside the enum.
C15_Witness ==
    /\ last_call.op = "generate_greeting"
    /\ last_call.args[1] \in greeting_ids
    /\ greeting_history[last_call.args[1]].style = "pirate"
    /\ last_call.result.status = "delivered"

(***************************************************************************)
(* Properties of the three tools together (ToolsSpec)                      *)
(***************************************************************************)
\* The ids are the keys of the history, and each stored form carries its key
RegistryConsistent ==
    /\ greeting_ids = DOMAIN greeting_history
    /\ \A k \in DOMAIN greeting_history : greeting_history[k].greeting_id = k

\* A step of a tool other than create_greeting_form changes neither structure
OnlyCreateChanges ==
    last_call'.op # "create_greeting_form" =>
        UNCHANGED <<greeting_ids, greeting_history>>

\* C22: after any sequence of create_greeting_form, return_greeting_form and
\* generate_greeting calls, greeting_ids is the set of keys of
\* greeting_history and every stored form's greeting_id is its key; only
\* create_greeting_form changes either structure.
C22_RegistryConsistent ==
    /\ []RegistryConsistent
    /\ [][OnlyCreateChanges]_vars

\* Two forms are stored, one has been delivered, and the latest call is a
\* return_greeting_form that returned the form of a stored greeting.
C22_Witness ==
    /\ Cardinality(greeting_ids) = 2
    /\ delivered # {}
    /\ last_call.op = "return_greeting_form"
    /\ ~last_call.result.raised
    /\ last_call.args[1].form.greeting_id \in greeting_ids

=============================================================================
